---- MODULE Spec2Model ----
(***************************************************************************)
(* FocusLog (focuslog.py): the activity sampler, the tick ledger, the      *)
(* snapshot recorder, the two-stage title redactor with its shared cache,  *)
(* and the timeline compressor of get_activity_log.                        *)
(*                                                                         *)
(* Strings are sequences of one-character strings, so that the regular     *)
(* expressions, strip() and the substring tests of the source are computed *)
(* character by character.  Time is an integer number of model seconds.    *)
(***************************************************************************)
EXTENDS Integers, Sequences, FiniteSets, TLC

VARIABLES
    clock,                 \* datetime.now(), in model seconds
    activity_ticks,        \* the deque of tick timestamps          (line 44)
    activity_lock,         \* holder of activity_lock               (line 45)
    allTicks,              \* history: every tick ever appended
    last_idle_time,        \* _apm_counter_thread's local           (line 301)
    smp,                   \* the sampler's position and wake-up time
    rec,                   \* the recorder's position and locals
    db,                    \* the activity table, ordered by timestamp
    anonymization_cache,   \* title -> label                        (line 46)
    threads,               \* the request threads serving get_activity_log
    req,                   \* per request thread: position and locals
    calls,                 \* history: _anonymize_title invocations per title
    stage2Succeeded,       \* history: some ollama call returned output
    invocations            \* history: get_activity_log invocations started

vars == <<clock, activity_ticks, activity_lock, allTicks, last_idle_time, smp,
          rec, db, anonymization_cache, threads, req, calls, stage2Succeeded,
          invocations>>

----------------------------------------------------------------------------
(* Characters and strings                                                  *)

UpperCase == <<"A","B","C","D","E","F","G","H","I","J","K","L","M",
               "N","O","P","Q","R","S","T","U","V","W","X","Y","Z">>
LowerCase == <<"a","b","c","d","e","f","g","h","i","j","k","l","m",
               "n","o","p","q","r","s","t","u","v","w","x","y","z">>
Digits == {"0","1","2","3","4","5","6","7","8","9"}

Range(s) == {s[i] : i \in DOMAIN s}

\* re.IGNORECASE compares case-folded characters
Lower(c) ==
    IF c \in Range(UpperCase)
    THEN LowerCase[CHOOSE i \in DOMAIN UpperCase : UpperCase[i] = c]
    ELSE c

\* \w of the re module
IsWordChar(c) == c \in Range(UpperCase) \cup Range(LowerCase) \cup Digits \cup {"_"}

\* \s of the re module, and the characters str.strip() removes
IsSpace(c) == c \in {" ", "\t", "\n"}

\* \b between s[p] and s[p+1] (p = 0: before the first character)
WordBoundary(s, p) ==
    LET left  == p >= 1 /\ IsWordChar(s[p])
        right == p + 1 <= Len(s) /\ IsWordChar(s[p + 1])
    IN  left # right

\* s[i..j], empty when i > j
Slice(s, i, j) == IF i > j THEN <<>> ELSE SubSeq(s, i, j)

\* str.strip(chars)
RECURSIVE LStripIdx(_, _, _)
LStripIdx(s, i, chars) ==
    IF i <= Len(s) /\ s[i] \in chars THEN LStripIdx(s, i + 1, chars) ELSE i
RECURSIVE RStripIdx(_, _, _)
RStripIdx(s, j, chars) ==
    IF j >= 1 /\ s[j] \in chars THEN RStripIdx(s, j - 1, chars) ELSE j
StripChars(s, chars) == Slice(s, LStripIdx(s, 1, chars), RStripIdx(s, Len(s), chars))
Strip(s) == StripChars(s, {" ", "\t", "\n"})

\* `sub in s`
Contains(s, sub) ==
    \E i \in 1..(Len(s) - Len(sub) + 1) : SubSeq(s, i, i + Len(sub) - 1) = sub

\* str.endswith
EndsWith(s, suf) ==
    Len(suf) <= Len(s) /\ SubSeq(s, Len(s) - Len(suf) + 1, Len(s)) = suf

----------------------------------------------------------------------------
(* config.py (not part of the sources at hand): values in model units      *)

FORBIDDEN_KEYWORDS == << <<"b","o","b">> >>
LOG_INTERVAL_SECONDS == 2
APM_WINDOW_SECONDS == 3
APM_POLL_INTERVAL_S == 1
LOG_RETENTION_HOURS == 2
MAX_TITLE_LENGTH == 12
KNOWN_BROWSERS == << <<"F","x">> >>
TITLE_CLEANUP_RULES == << [keyword |-> <<"y","t">>, clean_name |-> <<"Y","T">>] >>


----------------------------------------------------------------------------
(* Stage 1 of _anonymize_title: FORBIDDEN_PATTERN and the clean-up         *)

\* the keyword w matches s at i: \b(w)\b with re.IGNORECASE
KeywordMatchesAt(s, i, w) ==
    /\ i + Len(w) - 1 <= Len(s)
    /\ \A k \in 1..Len(w) : Lower(s[i + k - 1]) = Lower(w[k])
    /\ WordBoundary(s, i - 1)
    /\ WordBoundary(s, i + Len(w) - 1)

\* length of the match of FORBIDDEN_PATTERN at i (the first alternative that
\* matches), 0 when there is none
ForbiddenMatchLen(s, i) ==
    LET hits == {n \in DOMAIN FORBIDDEN_KEYWORDS :
                    KeywordMatchesAt(s, i, FORBIDDEN_KEYWORDS[n])}
    IN  IF hits = {} THEN 0
        ELSE Len(FORBIDDEN_KEYWORDS[CHOOSE n \in hits : \A m \in hits : n <= m])

\* FORBIDDEN_PATTERN.search(s) is not None
HasForbidden(s) == \E i \in 1..Len(s) : ForbiddenMatchLen(s, i) > 0

\* FORBIDDEN_PATTERN.sub("", s), from position i
RECURSIVE ForbiddenSubFrom(_, _)
ForbiddenSubFrom(s, i) ==
    IF i > Len(s) THEN <<>>
    ELSE LET n == ForbiddenMatchLen(s, i)
         IN  IF n > 0 THEN ForbiddenSubFrom(s, i + n)
             ELSE <<s[i]>> \o ForbiddenSubFrom(s, i + 1)

RECURSIVE SkipSpaces(_, _)
SkipSpaces(s, i) == IF i <= Len(s) /\ IsSpace(s[i]) THEN SkipSpaces(s, i + 1) ELSE i

\* end (exclusive) of the match of \s*-\s*-\s* at i, 0 when there is none
DashMatchEnd(s, i) ==
    LET j == SkipSpaces(s, i)
    IN  IF j > Len(s) \/ s[j] # "-" THEN 0
        ELSE LET k == SkipSpaces(s, j + 1)
             IN  IF k > Len(s) \/ s[k] # "-" THEN 0
                 ELSE SkipSpaces(s, k + 1)

\* re.sub(r'\s*-\s*-\s*', ' - ', s), from position i
RECURSIVE DashCollapseFrom(_, _)
DashCollapseFrom(s, i) ==
    IF i > Len(s) THEN <<>>
    ELSE LET e == DashMatchEnd(s, i)
         IN  IF e > 0 THEN <<" ", "-", " ">> \o DashCollapseFrom(s, e)
             ELSE <<s[i]>> \o DashCollapseFrom(s, i + 1)

\* lines 185-189: pre_sanitized_title
PreSanitize(title) ==
    IF FORBIDDEN_KEYWORDS = <<>> THEN title
    ELSE StripChars(DashCollapseFrom(Strip(ForbiddenSubFrom(title, 1)), 1), {" ", "-"})

----------------------------------------------------------------------------
(* Bounds of the model                                                     *)

\* one hour of timedelta(hours=...), in model seconds
HourSeconds == 3
\* get_activity_log invocations per run of the request specification
MaxInvocations == 2
\* snapshot rows of a timeline input
MaxRows == 3
\* last value of the clock in the recorder specification
MaxClock == 5

----------------------------------------------------------------------------
(* Titles                                                                  *)

USER_AFK == <<"U","S","E","R","_","A","F","K">>
USER_AFK_LOCKED == USER_AFK \o <<"_","L","O","C","K","E","D">>
Desktop == <<"D","e","s","k","t","o","p">>

T_bob_m   == <<"b","o","b"," ","-"," ","m">>
T_Bob_m   == <<"B","o","b"," ","-"," ","m">>
T_m       == <<"m">>
T_x       == <<"x">>
T_a_bob_m == <<"a"," ","-"," ","b","o","b"," ","-"," ","m">>
T_afk_bob == USER_AFK \o <<" ","b","o","b">>
T_yt_Fx   == <<"y","t"," ","b","o","b"," ","-"," ","c","l","i","p"," ","F","x">>
T_long    == <<"n","o","t","e","s"," ","o","f"," ","b","o","b","b","y">>

\* what xdotool may print for the focused window
RawTitles == {T_bob_m, T_Bob_m, T_m, T_x, T_a_bob_m, T_afk_bob, T_yt_Fx, T_long}

----------------------------------------------------------------------------
(* _sanitize_window_title, lines 167-177                                   *)

\* next(browser for browser in KNOWN_BROWSERS if title.endswith(browser)):
\* index of the first such browser, 0 when there is none
BrowserOf(title) ==
    LET hits == {n \in DOMAIN KNOWN_BROWSERS : EndsWith(title, KNOWN_BROWSERS[n])}
    IN  IF hits = {} THEN 0 ELSE CHOOSE n \in hits : \A m \in hits : n <= m

\* index of the first clean-up rule whose keyword is in the title, 0 when none
CleanupRuleOf(title) ==
    LET hits == {n \in DOMAIN TITLE_CLEANUP_RULES :
                    Contains(title, TITLE_CLEANUP_RULES[n].keyword)}
    IN  IF hits = {} THEN 0 ELSE CHOOSE n \in hits : \A m \in hits : n <= m

SanitizeWindowTitle(title) ==
    IF BrowserOf(title) > 0 /\ CleanupRuleOf(title) > 0
    THEN TITLE_CLEANUP_RULES[CleanupRuleOf(title)].clean_name
            \o <<" ", "-", " ">> \o KNOWN_BROWSERS[BrowserOf(title)]
    ELSE IF Len(title) > MAX_TITLE_LENGTH
         THEN <<".", ".", ".">>
                \o SubSeq(title, Len(title) - (MAX_TITLE_LENGTH - 3) + 1, Len(title))
         ELSE title

\* the titles the recorder can have stored
StoredTitles ==
    {SanitizeWindowTitle(t) : t \in RawTitles \cup {Desktop}} \cup {USER_AFK_LOCKED}

----------------------------------------------------------------------------
(* _run_command and stage 2 of _anonymize_title                            *)

\* what subprocess.run can do: print a text and exit 0, time out, exit
\* non-zero, or fail to start the program (OSError)
Outcome(kind, out) == [kind |-> kind, out |-> out]

\* lines 118-131: only TimeoutExpired and CalledProcessError are caught
RunCommand(outcome) ==
    CASE outcome.kind = "ok" ->
            [exc |-> FALSE, some |-> TRUE, v |-> Strip(outcome.out)]
      [] outcome.kind \in {"timeout", "nonzero"} ->
            [exc |-> FALSE, some |-> FALSE, v |-> <<>>]
      [] OTHER ->
            [exc |-> TRUE, some |-> FALSE, v |-> <<>>]

\* lines 179-208: the result, or the exception _run_command let through
AnonymizeTitle(title, outcome) ==
    LET pre == PreSanitize(title)
        r   == RunCommand(outcome)
    IN  IF r.exc THEN [exc |-> TRUE, v |-> <<>>]
        ELSE IF ~r.some THEN [exc |-> FALSE, v |-> pre]
        ELSE [exc |-> FALSE, v |-> r.v]

\* what the language model may print for a prompt: the title unchanged, or a
\* rewritten one (here with the trailing newline of a terminal)
Stage2Outputs(pre) == {pre, <<"m", "\n">>}

Stage2Outcomes(pre) ==
    {Outcome("ok", o) : o \in Stage2Outputs(pre)}
        \cup {Outcome(k, <<>>) : k \in {"timeout", "nonzero", "oserror"}}

----------------------------------------------------------------------------
(* get_activity_log: the query, lines 219-233                              *)

Min(a, b) == IF a < b THEN a ELSE b
Max(a, b) == IF a > b THEN a ELSE b

RECURSIVE SumSeq(_)
SumSeq(s) == IF s = <<>> THEN 0 ELSE Head(s) + SumSeq(Tail(s))

Row(timestamp, title, apm) == [timestamp |-> timestamp, title |-> title, apm |-> apm]

\* the second of the minute at which the model's clock reads 0
Epoch == 30

DigitChars == <<"0","1","2","3","4","5","6","7","8","9">>

\* datetime.isoformat(): the text of an instant.  The instants of the model
\* are whole seconds of one minute, so the text is the zero-padded seconds
\* field; the fields before it are the same for all of them, and isoformat
\* prints no fraction when the microsecond is 0.
IsoFormat(t) ==
    LET seconds == t + Epoch
    IN  <<DigitChars[(seconds \div 10) + 1], DigitChars[(seconds % 10) + 1]>>

\* the place of a digit character in the character set
DigitCode == [c \in Digits |-> CHOOSE n \in DOMAIN DigitChars : DigitChars[n] = c]

\* SQLite's order of TEXT values: byte by byte from position i, a proper
\* prefix first
RECURSIVE TextLessFrom(_, _, _)
TextLessFrom(a, b, i) ==
    IF i > Len(b) THEN FALSE
    ELSE IF i > Len(a) THEN TRUE
    ELSE IF a[i] = b[i] THEN TextLessFrom(a, b, i + 1)
    ELSE DigitCode[a[i]] < DigitCode[b[i]]

TextLess(a, b) == TextLessFrom(a, b, 1)

\* the clamp without its lower limit
ClampHours_noFloor(hours_ago) == Min(hours_ago, LOG_RETENTION_HOURS)

\* line 220
ClampHours(hours_ago) == Max(1, Min(hours_ago, LOG_RETENTION_HOURS))

\* lines 221 and 226: WHERE timestamp >= ? ORDER BY timestamp, the column and
\* the parameter both isoformat texts
QueryRows(table, start_time) ==
    LET start_time_iso == IsoFormat(start_time)
        Kept(row) == ~TextLess(IsoFormat(row.timestamp), start_time_iso)
    IN  SelectSeq(table, Kept)

\* the unique titles without the exemption of "USER_AFK"
UniqueTitles_withSentinel(rows) ==
    {t \in {rows[i].title : i \in DOMAIN rows} : t # <<>>}

\* line 235
UniqueTitles(rows) ==
    {t \in {rows[i].title : i \in DOMAIN rows} : t # <<>> /\ ~Contains(t, USER_AFK)}

\* the miss check without the cache: every unique title is submitted
TitlesToAnonymize_ignoringCache(unique, cache) == unique

\* line 238: the titles with no cache entry
TitlesToAnonymize(unique, cache) == {t \in unique : t \notin DOMAIN cache}

\* the orders in which a set may be iterated
Orders(S) == {p \in [1..Cardinality(S) -> S] : Range(p) = S}

\* lines 249 and 253: anonymization_cache[title] = value
CachePut(cache, title, value) ==
    [t \in DOMAIN cache \cup {title} |-> IF t = title THEN value ELSE cache[t]]

\* lines 246-253: what is cached for a finished future
CachedValue(original_title, future) ==
    IF future.exc THEN original_title ELSE future.v

\* the rows compressed under their stored titles
LabelOf_raw(map, title) == title

\* line 256 and line 263: dict.get(title, title)
LabelOf(map, title) == IF title \in DOMAIN map THEN map[title] ELSE title

\* line 256
AnonymizationMap(unique, cache) == [t \in unique |-> LabelOf(cache, t)]

----------------------------------------------------------------------------
(* get_activity_log: run-length compression, lines 258-280                 *)

\* the mean rounded to the nearest integer instead of truncated
IntMean_rounded(values) ==
    IF values = <<>> THEN 0
    ELSE (2 * SumSeq(values) + Len(values)) \div (2 * Len(values))

\* int(statistics.mean(values)) if values else 0
IntMean(values) == IF values = <<>> THEN 0 ELSE SumSeq(values) \div Len(values)

Block(start, duration, title, avg_apm) ==
    [start |-> start, duration |-> duration, title |-> title, avg_apm |-> avg_apm]

\* line 259: no block is open
NoBlock == [open |-> FALSE, title |-> <<>>, start |-> 0, values |-> <<>>,
            timeline |-> <<>>]

\* line 265
StartsBlock(st, label) == ~st.open \/ label # st.title

\* lines 267-269 and 278-280: the open block, closed at `end`
CloseBlock(st, end) ==
    Append(st.timeline, Block(st.start, end - st.start, st.title, IntMean(st.values)))

\* lines 262-275: one row of the loop; the apm of a row the recorder wrote is
\* never NULL, so the tests of lines 273 and 274 are true
CompressStep(st, row, label) ==
    IF StartsBlock(st, label)
    THEN [open |-> TRUE, title |-> label, start |-> row.timestamp,
          values |-> <<row.apm>>,
          timeline |-> IF st.open THEN CloseBlock(st, row.timestamp) ELSE st.timeline]
    ELSE [st EXCEPT !.values = Append(@, row.apm)]

RECURSIVE CompressFrom(_, _, _, _)
CompressFrom(rows, map, i, st) ==
    IF i > Len(rows) THEN st
    ELSE CompressFrom(rows, map, i + 1, CompressStep(st, rows[i], LabelOf(map, rows[i].title)))

\* the trailing block closed at the last row instead of datetime.now()
BuildTimeline_lastRow(rows, map, now) ==
    LET st == CompressFrom(rows, map, 1, NoBlock)
    IN  IF st.open THEN CloseBlock(st, rows[Len(rows)].timestamp) ELSE st.timeline

\* lines 258-280: the blocks, the trailing one closed at datetime.now()
BuildTimeline(rows, map, now) ==
    LET st == CompressFrom(rows, map, 1, NoBlock)
    IN  IF st.open THEN CloseBlock(st, now) ELSE st.timeline

----------------------------------------------------------------------------
(* get_activity_log: rendering, lines 282-294                              *)

\* the filter with <= in place of <
IsRendered_strict(block) == ~(2 * block.duration <= LOG_INTERVAL_SECONDS)

\* line 284: duration.total_seconds() < LOG_INTERVAL_SECONDS / 2 skips the block
IsRendered(block) == ~(2 * block.duration < LOG_INTERVAL_SECONDS)

\* lines 285-291: what enters the line of a block; apm is <<n>> for
\* "(Avg APM: n)" and <<>> for a line without that segment
RenderLine(block) ==
    [start |-> block.start, duration |-> block.duration, title |-> block.title,
     apm |-> IF Contains(block.title, USER_AFK) THEN <<>> ELSE <<block.avg_apm>>]

Render(timeline) ==
    LET shown == SelectSeq(timeline, IsRendered)
    IN  [i \in DOMAIN shown |-> RenderLine(shown[i])]

----------------------------------------------------------------------------
(* The request threads: get_activity_log, lines 210-294                    *)

\* the hours_ago arguments of the callers: every value from below the clamp to
\* above it for a single caller, one below and one above for concurrent ones
HoursArgs ==
    IF Cardinality(threads) = 1 THEN (-1)..(LOG_RETENTION_HOURS + 2) ELSE {0, 5}

Output(kind, lines) == [kind |-> kind, lines |-> lines]

IdleRequest ==
    [pc |-> "idle", hours_ago |-> 0, hours |-> 0, rows |-> <<>>, unique |-> {},
     todo |-> <<>>,
     fut |-> <<>>, idx |-> 1, map |-> <<>>, blocks |-> <<>>, now |-> 0,
     out |-> Output("none", <<>>),
     startKeys |-> {}]     \* history: the cache's keys when the invocation began

\* a submitted future; runs counts the executions of its task
Pending == [state |-> "pending", exc |-> FALSE, v |-> <<>>, runs |-> 0]

\* a task that raised is run again
Done_retryOnError(future, res) ==
    IF res.exc THEN [future EXCEPT !.runs = @ + 1]
    ELSE [state |-> "done", exc |-> FALSE, v |-> res.v, runs |-> future.runs + 1]

\* the future once its task has returned or raised
Done(future, res) ==
    [state |-> "done", exc |-> res.exc, v |-> res.v, runs |-> future.runs + 1]

recorderVars == <<activity_ticks, activity_lock, allTicks, last_idle_time, smp, rec>>
requestVars == <<anonymization_cache, threads, req, calls, stage2Succeeded, invocations>>

\* line 47: the threads that hold anonymization_cache_lock; a thread holds it
\* from the `with` of line 248 or 252 until its write is done
anonymization_cache_lock == {r \in threads : req[r].pc = "write"}

\* lines 219-233: clamp, query, and the two early returns
ReqStart(r) ==
    /\ req[r].pc = "idle"
    /\ invocations < MaxInvocations
    /\ \E hours_ago \in HoursArgs, db_ok \in BOOLEAN :
        LET hours == ClampHours(hours_ago)
            rows  == QueryRows(db, clock - hours * HourSeconds)
            begun == [IdleRequest EXCEPT !.hours_ago = hours_ago,
                                         !.hours = hours,
                                         !.startKeys = DOMAIN anonymization_cache]
        IN  req' = [req EXCEPT ![r] =
                IF ~db_ok
                THEN [begun EXCEPT !.pc = "done", !.out = Output("error", <<>>)]
                ELSE IF rows = <<>>
                THEN [begun EXCEPT !.pc = "done", !.out = Output("empty", <<>>)]
                ELSE [begun EXCEPT !.pc = "miss", !.rows = rows]]
    /\ invocations' = invocations + 1
    /\ UNCHANGED <<clock, db, anonymization_cache, threads, calls, stage2Succeeded,
                   recorderVars>>

\* lines 235-243: the unique titles, the miss check under the cache lock, and
\* one submitted task per missing title
ReqMissCheck(r) ==
    /\ req[r].pc = "miss"
    /\ anonymization_cache_lock = {}
    /\ LET unique == UniqueTitles(req[r].rows)
           miss   == TitlesToAnonymize(unique, anonymization_cache)
       IN  \E todo \in Orders(miss) :
             req' = [req EXCEPT ![r].unique = unique,
                                ![r].todo = todo,
                                ![r].fut = [t \in miss |-> Pending],
                                ![r].idx = 1,
                                ![r].pc = IF miss = {} THEN "map" ELSE "collect"]
    /\ UNCHANGED <<clock, db, anonymization_cache, threads, calls, stage2Succeeded,
                   invocations, recorderVars>>

\* line 243: a worker of the pool runs _anonymize_title(title)
ReqRunTask(r, title) ==
    /\ req[r].pc = "collect"
    /\ title \in DOMAIN req[r].fut
    /\ req[r].fut[title].state = "pending"
    /\ \E outcome \in Stage2Outcomes(PreSanitize(title)) :
        LET res == AnonymizeTitle(title, outcome)
        IN  /\ req' = [req EXCEPT ![r].fut[title] = Done(@, res)]
            /\ stage2Succeeded' = (stage2Succeeded \/ outcome.kind = "ok")
    /\ calls' = [calls EXCEPT ![title] = @ + 1]
    /\ UNCHANGED <<clock, db, anonymization_cache, threads, invocations, recorderVars>>

\* lines 244-248 and 250-252: future.result() of the next future returns or
\* raises, and the thread takes the cache lock
ReqCollect(r) ==
    /\ req[r].pc = "collect"
    /\ req[r].idx <= Len(req[r].todo)
    /\ req[r].fut[req[r].todo[req[r].idx]].state = "done"
    /\ anonymization_cache_lock = {}
    /\ req' = [req EXCEPT ![r].pc = "write"]
    /\ UNCHANGED <<clock, db, anonymization_cache, threads, calls, stage2Succeeded,
                   invocations, recorderVars>>

\* lines 249 and 253: the result, or the original title after an exception,
\* is written to the cache, and the lock is released
ReqWriteBack(r) ==
    /\ req[r].pc = "write"
    /\ LET original_title == req[r].todo[req[r].idx]
           future         == req[r].fut[original_title]
       IN  anonymization_cache' =
                 CachePut(anonymization_cache, original_title,
                          CachedValue(original_title, future))
    /\ req' = [req EXCEPT ![r].idx = @ + 1,
                          ![r].pc = IF req[r].idx = Len(req[r].todo)
                                    THEN "map" ELSE "collect"]
    /\ UNCHANGED <<clock, db, threads, calls, stage2Succeeded, invocations,
                   recorderVars>>

\* lines 256-294: the label map, read from the cache without the lock, the
\* blocks and the rendered timeline
ReqBuild(r) ==
    /\ req[r].pc = "map"
    /\ LET map    == AnonymizationMap(req[r].unique, anonymization_cache)
           blocks == BuildTimeline(req[r].rows, map, clock)
       IN  req' = [req EXCEPT ![r].map = map,
                              ![r].blocks = blocks,
                              ![r].now = clock,
                              ![r].out = Output("timeline", Render(blocks)),
                              ![r].pc = "done"]
    /\ UNCHANGED <<clock, db, anonymization_cache, threads, calls, stage2Succeeded,
                   invocations, recorderVars>>

\* the tool call returns; the thread may serve another one
ReqReturn(r) ==
    /\ req[r].pc = "done"
    /\ req' = [req EXCEPT ![r] = IdleRequest]
    /\ UNCHANGED <<clock, db, anonymization_cache, threads, calls, stage2Succeeded,
                   invocations, recorderVars>>

----------------------------------------------------------------------------
(* Spec: concurrent get_activity_log invocations over a stored table       *)

\* the table the recorder leaves after cycles LOG_INTERVAL_SECONDS apart
TableOf(titles) ==
    [i \in DOMAIN titles |->
        Row((i - 1) * LOG_INTERVAL_SECONDS, titles[i],
            IF titles[i] = USER_AFK_LOCKED THEN 0 ELSE i)]

SpecTables == {TableOf(<<T_bob_m, USER_AFK_LOCKED, T_x>>)}

\* the two background threads at the head of their loops (lines 304 and 317),
\* the locals of a cycle not yet assigned
StartedSampler ==
    [pc |-> "sleep", wake |-> APM_POLL_INTERVAL_S, cur |-> 0,
     traced |-> FALSE,                 \* the two histories below are kept
     read |-> [some |-> FALSE, v |-> 0],   \* history: the latest idle read
     good |-> 0]                       \* history: the latest idle value read
StartedRecorder ==
    [pc |-> "sleep", wake |-> LOG_INTERVAL_SECONDS, now |-> 0, one_minute_ago |-> 0,
     apm_count |-> 0, final_title |-> <<>>, exc |-> "none",
     lastFailed |-> FALSE,   \* history: the previous cycle ended in the handler
     locked |-> FALSE,       \* history: what _is_screen_locked() returned
     tookLock |-> FALSE,     \* history: the cycle entered `with activity_lock`
     seen |-> 0,             \* history: ticks ever appended when line 330 ran
     didRead |-> FALSE,      \* history: the cycle called _get_active_window_title
     read |-> [exc |-> FALSE, some |-> FALSE, v |-> <<>>]]   \* history: its result

InitBackground ==
    /\ activity_ticks = <<>>
    /\ activity_lock = "free"
    /\ allTicks = <<>>
    /\ last_idle_time = 0
    /\ smp = StartedSampler
    /\ rec = StartedRecorder

InitRequests(T) ==
    /\ threads = T
    /\ req = [r \in T |-> IdleRequest]
    /\ anonymization_cache = <<>>
    /\ calls = [t \in StoredTitles |-> 0]
    /\ stage2Succeeded = FALSE
    /\ invocations = 0

Init ==
    /\ InitBackground
    /\ InitRequests({1, 2})
    /\ db \in SpecTables
    /\ clock = 2 * LOG_INTERVAL_SECONDS + 1

Start     == \E r \in threads : ReqStart(r)
MissCheck == \E r \in threads : ReqMissCheck(r)
RunTask   == \E r \in threads : \E title \in DOMAIN req[r].fut : ReqRunTask(r, title)
Collect   == \E r \in threads : ReqCollect(r)
WriteBack == \E r \in threads : ReqWriteBack(r)
Build     == \E r \in threads : ReqBuild(r)
Return    == \E r \in threads : ReqReturn(r)

Next == Start \/ MissCheck \/ RunTask \/ Collect \/ WriteBack \/ Build \/ Return

Spec == Init /\ [][Next]_vars

----------------------------------------------------------------------------
(* SpecSingle: one request thread, over tables with every kind of title    *)

SingleTables ==
    {TableOf(<<T_bob_m, USER_AFK_LOCKED, T_m>>),
     TableOf(<<T_afk_bob, T_Bob_m, T_a_bob_m>>),
     TableOf(<<USER_AFK_LOCKED, USER_AFK_LOCKED, USER_AFK_LOCKED>>)}

InitSingle ==
    /\ InitBackground
    /\ InitRequests({1})
    /\ db \in SingleTables
    /\ clock = 2 * LOG_INTERVAL_SECONDS + 1

SpecSingle == InitSingle /\ [][Next]_vars

----------------------------------------------------------------------------
(* SpecTimeline: lines 256-294 applied to every small table, with every    *)
(* label map the redactor can have left in the cache                       *)

TimelineTitles == {USER_AFK_LOCKED, T_bob_m, T_m}
ApmValues == {1, 2}
Gaps == {LOG_INTERVAL_SECONDS, LOG_INTERVAL_SECONDS + 1}
NowOffsets == {0, 1}

\* the rows a recorder cycle can append to a table
NextRows(table) ==
    {Row(IF table = <<>> THEN 0 ELSE table[Len(table)].timestamp + gap, title, apm) :
        gap \in Gaps, title \in TimelineTitles \ {USER_AFK_LOCKED}, apm \in ApmValues}
    \cup
    {Row(IF table = <<>> THEN 0 ELSE table[Len(table)].timestamp + gap,
         USER_AFK_LOCKED, 0) : gap \in Gaps}

RECURSIVE TablesOfLen(_)
TablesOfLen(n) ==
    IF n = 0 THEN {<<>>}
    ELSE UNION {{Append(table, row) : row \in NextRows(table)} :
                    table \in TablesOfLen(n - 1)}

TimelineTables == UNION {TablesOfLen(n) : n \in 1..MaxRows}

\* what the cache can hold for a title: a result of _anonymize_title, or the
\* title itself (line 253)
PossibleLabels(title) ==
    {title} \cup {AnonymizeTitle(title, o).v :
                    o \in {x \in Stage2Outcomes(PreSanitize(title)) :
                              ~AnonymizeTitle(title, x).exc}}

LabelMaps(titles) ==
    {m \in [titles -> UNION {PossibleLabels(t) : t \in titles}] :
        \A t \in titles : m[t] \in PossibleLabels(t)}

InitTimeline ==
    /\ InitBackground
    /\ threads = {1}
    /\ db \in TimelineTables
    /\ \E offset \in NowOffsets : clock = db[Len(db)].timestamp + offset
    /\ \E hours \in {LOG_RETENTION_HOURS} :
        LET rows   == QueryRows(db, clock - hours * HourSeconds)
            unique == UniqueTitles(rows)
        IN  /\ rows # <<>>
            /\ anonymization_cache \in LabelMaps(unique)
            /\ req = [r \in {1} |->
                        [IdleRequest EXCEPT !.pc = "map", !.hours_ago = hours,
                                            !.hours = hours,
                                            !.rows = rows, !.unique = unique]]
            /\ calls = [t \in StoredTitles |-> IF t \in unique THEN 1 ELSE 0]
    /\ stage2Succeeded \in BOOLEAN
    /\ invocations = 1

NextTimeline == Build

SpecTimeline == InitTimeline /\ [][NextTimeline]_vars

----------------------------------------------------------------------------
(* Properties of the redactor and its cache                                *)

\* the requests that have returned a timeline
Finished == {r \in threads : req[r].pc = "done" /\ req[r].out.kind = "timeline"}

\* the requests whose batch of redaction tasks has ended
BatchEnded == {r \in threads : req[r].pc \in {"map", "done"} /\ req[r].todo # <<>>}

RowTitles(rows) == {rows[i].title : i \in DOMAIN rows}

\* C1: if every stage-2 call made so far has failed, every label rendered for
\* a snapshot whose title is not the AFK sentinel is the stage-1 result of
\* that title and holds no whole-word, case-insensitive forbidden keyword.
C1_FallbackRedacts ==
    ~stage2Succeeded =>
        \A r \in Finished : \A i \in DOMAIN req[r].rows :
            LET title == req[r].rows[i].title
                label == IF title \in DOMAIN req[r].map THEN req[r].map[title]
                         ELSE title
            IN  title # USER_AFK_LOCKED =>
                    /\ label = PreSanitize(title)
                    /\ ~HasForbidden(label)
                    /\ \E j \in DOMAIN req[r].blocks : req[r].blocks[j].title = label

\* C2: no cache entry is ever removed; an invocation that began when a title
\* had a cache entry submits no redaction task for it and takes the title's
\* label from the cache.
C2_CacheConvergence ==
    /\ [][DOMAIN anonymization_cache \subseteq DOMAIN anonymization_cache']_vars
    /\ [](\A r \in threads : req[r].startKeys \cap DOMAIN req[r].fut = {})
    /\ [][\A r \in threads :
            req[r].pc = "map" /\ req'[r].pc = "done" =>
                \A t \in req[r].startKeys \cap req[r].unique :
                    req'[r].map[t] = anonymization_cache[t]]_vars

C2_Witness ==
    \E r \in Finished :
        /\ req[r].startKeys \cap req[r].unique # {}
        /\ \E t \in req[r].startKeys : calls[t] = 1

C7_SentinelExempt ==
    /\ calls[USER_AFK_LOCKED] = 0
    /\ USER_AFK_LOCKED \notin DOMAIN anonymization_cache
    /\ \A r \in threads : USER_AFK_LOCKED \notin DOMAIN req[r].fut
    /\ \A r \in Finished :
        /\ USER_AFK_LOCKED \in DOMAIN req[r].map =>
                req[r].map[USER_AFK_LOCKED] = USER_AFK_LOCKED
        /\ \A i \in DOMAIN req[r].rows :
                req[r].rows[i].title = USER_AFK_LOCKED =>
                    \E j \in DOMAIN req[r].blocks :
                        /\ req[r].blocks[j].title = USER_AFK_LOCKED
                        /\ req[r].blocks[j].start <= req[r].rows[i].timestamp
        /\ \A k \in DOMAIN req[r].out.lines :
                req[r].out.lines[k].title = USER_AFK_LOCKED =>
                    req[r].out.lines[k].apm = <<>>

C7_Witness ==
    \E r \in Finished :
        /\ \E i \in DOMAIN req[r].rows :
              /\ i + 2 <= Len(req[r].rows)
              /\ \A d \in 0..2 : req[r].rows[i + d].title = USER_AFK_LOCKED
        /\ \E k \in DOMAIN req[r].out.lines :
              req[r].out.lines[k].title = USER_AFK_LOCKED

\* C9: when exactly one task of a batch raised, every other title of the
\* batch is cached with its own result, the failing title is cached as its
\* original text, the invocation returns a timeline, and every distinct title
\* of the request other than the sentinel has a cache entry.
C9_FailureIsolated ==
    \A r \in BatchEnded :
        LET raised == {t \in DOMAIN req[r].fut : req[r].fut[t].exc}
        IN  Cardinality(raised) = 1 =>
                /\ \A t \in DOMAIN req[r].fut :
                      /\ t \in DOMAIN anonymization_cache
                      /\ anonymization_cache[t] =
                            IF t \in raised THEN t ELSE req[r].fut[t].v
                /\ req[r].pc = "done" => req[r].out.kind = "timeline"
                /\ \A t \in RowTitles(req[r].rows) \ {USER_AFK_LOCKED} :
                      t \in DOMAIN anonymization_cache

\* the positions of the stored snapshots that are no older than `hours`
\* hours at the time of the query
WithinHours(hours) == {i \in DOMAIN db : db[i].timestamp >= clock - hours * HourSeconds}

\* C11: whatever integer hours_ago is passed, below 1 and above
\* LOG_RETENTION_HOURS included, the invocation ends in a returned value; the
\* hours it uses are max(1, min(hours_ago, LOG_RETENTION_HOURS)), hence within
\* 1..LOG_RETENTION_HOURS; and the rows it queries are exactly the stored
\* snapshots, in timestamp order, whose timestamp is >= now - hours.
C11_HoursClamped ==
    \A r \in threads :
        req[r].pc # "idle" =>
            LET h    == req[r].hours
                a    == req[r].hours_ago
                rows == req[r].rows
            IN  /\ h \in 1..LOG_RETENTION_HOURS
                /\ h = IF a < 1 THEN 1
                       ELSE IF a > LOG_RETENTION_HOURS THEN LOG_RETENTION_HOURS
                       ELSE a
                /\ req[r].pc = "done" =>
                      req[r].out.kind \in {"error", "empty", "timeline"}
                /\ req[r].out.kind = "empty" <=> (req[r].pc = "done" /\ WithinHours(h) = {}
                                                  /\ req[r].out.kind # "error")
                /\ req[r].out.kind # "error" =>
                      /\ Len(rows) = Cardinality(WithinHours(h))
                      /\ \A i \in WithinHours(h) : \E j \in DOMAIN rows : rows[j] = db[i]
                      /\ \A j \in 1..(Len(rows) - 1) :
                            rows[j].timestamp < rows[j + 1].timestamp

\* an argument below 1 served with one hour, which excludes a stored snapshot
\* and includes the one exactly one hour old
C11_Witness ==
    \E r \in Finished :
        /\ req[r].hours_ago < 1
        /\ req[r].hours = 1
        /\ Len(req[r].rows) < Len(db)
        /\ req[r].rows[1].timestamp = clock - HourSeconds

\* request r reads the cache in this step: the miss check of line 238 or
\* the label map of line 256
ReadsCache(r) ==
    \/ req[r].pc = "miss" /\ req'[r].pc # "miss"
    \/ req[r].pc = "map" /\ req'[r].pc # "map"

\* request r writes the cache in this step
WritesCache(r) == req[r].pc = "write" /\ req'[r].pc # "write"

\* C17: every read and every write of the cache by get_activity_log happens
\* in a section guarded by the cache lock: a request writes only while it
\* holds the lock, and no request reads the cache while another request
\* holds the lock for a write.
C17_CacheUnderLock ==
    [][\A r \in threads :
          /\ WritesCache(r) => anonymization_cache_lock = {r}
          /\ ReadsCache(r) => anonymization_cache_lock \subseteq {r}]_vars

\* no invocation that found `title` missing has its write-back still to do
NoPendingWrite(title) ==
    \A r \in threads :
        req[r].pc \in {"collect", "write"} =>
            \A k \in req[r].idx..Len(req[r].todo) : req[r].todo[k] # title

\* C20 as claimed: once a title has a cache entry, the value of the entry
\* never changes.
C20_EntryNeverChanges ==
    [][\A t \in DOMAIN anonymization_cache :
          t \in DOMAIN anonymization_cache'
              /\ anonymization_cache'[t] = anonymization_cache[t]]_vars

\* C20 as amended: an entry is never removed; its value changes only in the
\* write-back of an invocation that had found the title missing; and once no
\* such invocation is left, none appears and the value never changes again.
C20_EntryStableAfterRace ==
    [][\A t \in DOMAIN anonymization_cache :
          /\ t \in DOMAIN anonymization_cache'
          /\ anonymization_cache'[t] # anonymization_cache[t] =>
                \E r \in threads :
                    /\ req[r].pc = "write"
                    /\ req[r].todo[req[r].idx] = t
                    /\ t \in DOMAIN req[r].fut
                    /\ req'[r].idx = req[r].idx + 1
          /\ NoPendingWrite(t) =>
                /\ anonymization_cache'[t] = anonymization_cache[t]
                /\ NoPendingWrite(t)']_vars

\* two finished requests render one title under different labels: the entry
\* was overwritten between their label maps, and no write is left
C20_Witness ==
    \E r1 \in Finished, r2 \in Finished :
        \E t \in DOMAIN req[r1].map \cap DOMAIN req[r2].map :
            /\ req[r1].map[t] # req[r2].map[t]
            /\ anonymization_cache[t] = req[r2].map[t]
            /\ NoPendingWrite(t)

----------------------------------------------------------------------------
(* Properties of the timeline                                              *)

\* the redacted label of row i of request r: the title's cache entry, the
\* title itself when it has none
RowLabel(r, i) ==
    LET title == req[r].rows[i].title
    IN  IF title \in DOMAIN anonymization_cache THEN anonymization_cache[title]
        ELSE title

\* the positions of request r whose label differs from the previous row's
Boundaries(r) == {i \in 2..Len(req[r].rows) : RowLabel(r, i) # RowLabel(r, i - 1)}

\* the block a row falls into: the last one that starts no later than the row
BlockOfRow(r, i) ==
    LET into == {j \in DOMAIN req[r].blocks :
                    req[r].blocks[j].start <= req[r].rows[i].timestamp}
    IN  CHOOSE j \in into : \A k \in into : k <= j

\* C5: before filtering, the number of blocks is the number of label changes
\* plus one; adjacent blocks carry different labels; consecutive rows with
\* equal redacted labels, whatever their raw titles, are in the same block.
C5_RunLengthBlocks ==
    \A r \in Finished :
        /\ Len(req[r].blocks) = Cardinality(Boundaries(r)) + 1
        /\ \A j \in 1..(Len(req[r].blocks) - 1) :
              req[r].blocks[j].title # req[r].blocks[j + 1].title
        /\ \A i \in DOMAIN req[r].rows :
              req[r].blocks[BlockOfRow(r, i)].title = RowLabel(r, i)
        /\ \A i \in 2..Len(req[r].rows) :
              RowLabel(r, i) = RowLabel(r, i - 1) =>
                  BlockOfRow(r, i) = BlockOfRow(r, i - 1)

C5_Witness ==
    \E r \in Finished : \E i \in 2..Len(req[r].rows) :
        /\ req[r].rows[i].title # req[r].rows[i - 1].title
        /\ RowLabel(r, i) = RowLabel(r, i - 1)
        /\ Len(req[r].blocks) = 2

\* C6: a closed block lasts until the next block starts, the trailing block
\* until the time of the query; no duration is negative, and the durations
\* add up to the span from the first returned snapshot to the query.
C6_DurationsTile ==
    \A r \in Finished :
        LET blocks == req[r].blocks
            n      == Len(blocks)
        IN  /\ blocks[1].start = req[r].rows[1].timestamp
            /\ \A j \in 1..(n - 1) :
                  blocks[j].duration = blocks[j + 1].start - blocks[j].start
            /\ blocks[n].duration = req[r].now - blocks[n].start
            /\ \A j \in 1..n : blocks[j].duration >= 0
            /\ SumSeq([j \in 1..n |-> blocks[j].duration])
                  = req[r].now - req[r].rows[1].timestamp

C6_Witness ==
    \E r \in Finished :
        /\ Len(req[r].blocks) = 2
        /\ req[r].now > req[r].rows[Len(req[r].rows)].timestamp
        /\ req[r].blocks[2].start < req[r].rows[Len(req[r].rows)].timestamp

\* the blocks of request r that last at least LOG_INTERVAL_SECONDS / 2
LongBlocks(r) ==
    {j \in DOMAIN req[r].blocks : 2 * req[r].blocks[j].duration >= LOG_INTERVAL_SECONDS}

\* the k-th of them
KthLongBlock(r, k) ==
    CHOOSE j \in LongBlocks(r) : Cardinality({x \in LongBlocks(r) : x <= j}) = k

\* C8: the rendered lines are exactly the blocks that last at least
\* LOG_INTERVAL_SECONDS / 2, in order, each with its own start, duration,
\* label and average, whatever blocks were dropped around it.
C8_ShortBlocksDropped ==
    \A r \in Finished :
        LET lines == req[r].out.lines
        IN  /\ Len(lines) = Cardinality(LongBlocks(r))
            /\ \A k \in DOMAIN lines :
                  LET block == req[r].blocks[KthLongBlock(r, k)]
                  IN  /\ lines[k].start = block.start
                      /\ lines[k].duration = block.duration
                      /\ lines[k].title = block.title
                      /\ lines[k].apm \in {<<>>, <<block.avg_apm>>}

C8_Witness ==
    \E r \in Finished :
        /\ Len(req[r].blocks) = 3
        /\ Len(req[r].out.lines) = 2
        /\ 3 * req[r].blocks[3].duration < LOG_INTERVAL_SECONDS

\* the rows of request r that belong to its block j
RowsOfBlock(r, j) == {i \in DOMAIN req[r].rows : BlockOfRow(r, i) = j}

\* C19: the average of every block that is not an AFK block is the integer
\* part of the mean of the apm values of exactly the rows that belong to the
\* block (a mean of 1.5 is reported as 1, the mean of 5 and 7 as 6), and it
\* is the number in the "(Avg APM: n)" segment of the block's line.
C19_BlockAverage ==
    /\ IntMean(<<5, 7>>) = 6
    /\ \A r \in Finished : \A j \in DOMAIN req[r].blocks :
          LET block == req[r].blocks[j]
              mine  == RowsOfBlock(r, j)
              total == SumSeq([i \in DOMAIN req[r].rows |->
                                  IF i \in mine THEN req[r].rows[i].apm ELSE 0])
          IN  block.title # USER_AFK_LOCKED =>
                  /\ mine # {}
                  /\ block.avg_apm * Cardinality(mine) <= total
                  /\ total < (block.avg_apm + 1) * Cardinality(mine)
                  /\ \A k \in DOMAIN req[r].out.lines :
                        req[r].out.lines[k].start = block.start =>
                            req[r].out.lines[k].apm = <<block.avg_apm>>

\* a block of two rows with apm 1 and 2 is reported with 1, between two other
\* blocks
C19_Witness ==
    \E r \in Finished :
        /\ Len(req[r].rows) = 3
        /\ Len(req[r].blocks) = 2
        /\ RowsOfBlock(r, 1) = {1, 2}
        /\ req[r].rows[1].apm + req[r].rows[2].apm = 3
        /\ req[r].rows[1].title # req[r].rows[2].title
        /\ req[r].blocks[1].avg_apm = 1
        /\ req[r].out.lines[1].apm = <<1>>

\* C18: the titles a request resolves through the cache are exactly the
\* distinct titles of its rows other than the sentinel USER_AFK_LOCKED; every
\* row whose title is not the sentinel is in a block labelled with the
\* title's cache entry, and the line of that block, when it is rendered, has
\* an "(Avg APM: n)" segment.
C18_RedactionCoverage ==
    \A r \in Finished :
        /\ DOMAIN req[r].map = RowTitles(req[r].rows) \ {USER_AFK_LOCKED}
        /\ \A i \in DOMAIN req[r].rows :
              LET title == req[r].rows[i].title
                  block == req[r].blocks[BlockOfRow(r, i)]
              IN  title # USER_AFK_LOCKED =>
                      /\ title \in DOMAIN anonymization_cache
                      /\ block.title = anonymization_cache[title]
                      /\ \A k \in DOMAIN req[r].out.lines :
                            req[r].out.lines[k].start = block.start =>
                                req[r].out.lines[k].apm = <<block.avg_apm>>

----------------------------------------------------------------------------
(* _apm_counter_thread, lines 298-312                                      *)

\* line 302
poll_interval_ms == APM_POLL_INTERVAL_S * 1000

\* what running xprintidle can do: print the idle milliseconds, print
\* nothing or something that is no number, time out, exit non-zero, or fail
\* to start
IdleOutcomes ==
    {Outcome("ok", out) : out \in {<<"0", "\n">>, <<"1", "0", "0", "0", "\n">>,
                                   <<>>, <<"n", "/", "a">>}}
        \cup {Outcome(k, <<>>) : k \in {"timeout", "nonzero", "oserror"}}

\* str.isdigit() of a text (False for the empty text)
IsDigit(text) == text # <<>> /\ \A i \in DOMAIN text : text[i] \in Digits

\* int(text) of a text of digits
RECURSIVE ParseInt(_)
ParseInt(text) ==
    IF text = <<>> THEN 0
    ELSE LET last == text[Len(text)]
             d    == (CHOOSE n \in DOMAIN DigitChars : DigitChars[n] = last) - 1
         IN  10 * ParseInt(SubSeq(text, 1, Len(text) - 1)) + d

\* lines 162-165: _get_idle_time_ms(); exc when _run_command let an
\* exception through, some = FALSE for None
GetIdleTimeMs(outcome) ==
    LET result == RunCommand(outcome)
    IN  IF result.exc THEN [exc |-> TRUE, some |-> FALSE, v |-> 0]
        ELSE IF result.some /\ result.v # <<>> /\ IsDigit(result.v)
        THEN [exc |-> FALSE, some |-> TRUE, v |-> ParseInt(result.v)]
        ELSE [exc |-> FALSE, some |-> FALSE, v |-> 0]

\* what a call of _get_idle_time_ms() can come to
IdleReads == {GetIdleTimeMs(outcome) : outcome \in IdleOutcomes}

\* the idle times xprintidle reports, in milliseconds
IdleValues == {read.v : read \in {x \in IdleReads : x.some}}

\* the comparison of line 309 with <= in place of <
IsActive_inclusive(current_idle_time, last) ==
    current_idle_time <= last + poll_interval_ms

\* line 309
IsActive(current_idle_time, last) == current_idle_time < last + poll_interval_ms

\* the sampler's record with the histories of a poll brought up to date
Polled(current_idle_time) ==
    IF ~smp.traced THEN smp
    ELSE [smp EXCEPT !.read = [some |-> current_idle_time.some,
                               v |-> current_idle_time.v],
                     !.good = IF current_idle_time.some THEN current_idle_time.v
                              ELSE @]

\* line 301, as the thread starts: last_idle_time = _get_idle_time_ms() or 0
SamplerStart ==
    /\ smp.pc = "start"
    /\ \E first \in IdleReads :
        LET value == IF first.some THEN first.v ELSE 0
        IN  IF first.exc
            THEN /\ smp' = [smp EXCEPT !.pc = "dead"]
                 /\ UNCHANGED last_idle_time
            ELSE /\ last_idle_time' = value
                 /\ smp' = [smp EXCEPT !.pc = "sleep",
                                       !.wake = clock + APM_POLL_INTERVAL_S,
                                       !.good = IF smp.traced THEN value ELSE @]
    /\ UNCHANGED <<clock, activity_ticks, activity_lock, allTicks, rec, db, requestVars>>

\* lines 305-307 and 312: a poll whose idle read returns None, or a value
\* that shows no input
SamplerPollQuiet ==
    /\ smp.pc = "sleep"
    /\ clock >= smp.wake
    /\ \E current_idle_time \in IdleReads :
            /\ ~current_idle_time.exc
            /\ ~current_idle_time.some
                  \/ ~IsActive(current_idle_time.v, last_idle_time)
            /\ last_idle_time' = IF current_idle_time.some THEN current_idle_time.v
                                 ELSE last_idle_time
            /\ smp' = [Polled(current_idle_time) EXCEPT
                            !.wake = clock + APM_POLL_INTERVAL_S]
    /\ UNCHANGED <<clock, activity_ticks, activity_lock, allTicks, rec, db, requestVars>>

\* lines 305-310: a poll that shows input; the thread goes for the lock
SamplerPollActive ==
    /\ smp.pc = "sleep"
    /\ clock >= smp.wake
    /\ \E current_idle_time \in IdleReads :
            /\ ~current_idle_time.exc
            /\ current_idle_time.some
            /\ IsActive(current_idle_time.v, last_idle_time)
            /\ smp' = [Polled(current_idle_time) EXCEPT
                            !.pc = "append", !.cur = current_idle_time.v]
    /\ UNCHANGED <<clock, activity_ticks, activity_lock, allTicks, last_idle_time,
                   rec, db, requestVars>>

\* lines 310-312: under the lock, one tick stamped datetime.now()
SamplerAppend ==
    /\ smp.pc = "append"
    /\ activity_lock = "free"
    /\ activity_ticks' = Append(activity_ticks, clock)
    /\ allTicks' = Append(allTicks, clock)
    /\ last_idle_time' = smp.cur
    /\ smp' = [smp EXCEPT !.pc = "sleep", !.cur = 0,
                          !.wake = clock + APM_POLL_INTERVAL_S]
    /\ UNCHANGED <<clock, activity_lock, rec, db, requestVars>>

\* line 306: xprintidle cannot be started; _run_command lets the OSError
\* through _get_idle_time_ms and the loop, and the thread ends
SamplerDies ==
    /\ smp.pc = "sleep"
    /\ clock >= smp.wake
    /\ \E current_idle_time \in IdleReads : current_idle_time.exc
    /\ smp' = [smp EXCEPT !.pc = "dead"]
    /\ UNCHANGED <<clock, activity_ticks, activity_lock, allTicks, last_idle_time,
                   rec, db, requestVars>>

----------------------------------------------------------------------------
(* log_activity_periodically, lines 314-347                                *)

\* what xdotool may print in the recorder specification
RecorderTitles == {T_m}

\* the eviction with the comparison turned round
IsStale_reversed(tick, one_minute_ago) == tick > one_minute_ago

\* the eviction with <= in place of <
IsStale_inclusive(tick, one_minute_ago) == tick <= one_minute_ago

\* line 328: the tick is older than the window
IsStale(tick, one_minute_ago) == tick < one_minute_ago

\* line 339: INSERT OR IGNORE, the table kept in timestamp order
InsertOrIgnore(table, row) ==
    IF \E i \in DOMAIN table : IsoFormat(table[i].timestamp) = IsoFormat(row.timestamp)
    THEN table
    ELSE LET Before(x) == TextLess(IsoFormat(x.timestamp), IsoFormat(row.timestamp))
             After(x)  == TextLess(IsoFormat(row.timestamp), IsoFormat(x.timestamp))
         IN  SelectSeq(table, Before) \o <<row>> \o SelectSeq(table, After)

\* line 342: DELETE FROM activity WHERE timestamp < ?
Prune(table, cutoff) ==
    LET Kept(x) == ~TextLess(IsoFormat(x.timestamp), IsoFormat(cutoff))
    IN  SelectSeq(table, Kept)

\* a handler for storage errors only
Catches_storageOnly(exc) == exc = "sqlite3.Error"

\* line 346: the exceptions the handler of the loop catches
Catches(exc) == exc \in {"OSError", "sqlite3.Error", "Exception"}

\* line 318: time.sleep(LOG_INTERVAL_SECONDS) returns
RecWake ==
    /\ rec.pc = "sleep"
    /\ clock >= rec.wake
    /\ rec' = [rec EXCEPT !.pc = "probe"]
    /\ UNCHANGED <<clock, activity_ticks, activity_lock, allTicks, last_idle_time,
                   smp, db, requestVars>>

\* lines 320-326: _is_screen_locked(), which turns every failure of the probe
\* into False
RecProbe ==
    /\ rec.pc = "probe"
    /\ \E locked \in BOOLEAN :
        rec' = IF locked
               THEN [rec EXCEPT !.pc = "insert", !.final_title = USER_AFK_LOCKED,
                                !.apm_count = 0, !.locked = TRUE]
               ELSE [rec EXCEPT !.pc = "lock", !.now = clock,
                                !.one_minute_ago = clock - APM_WINDOW_SECONDS,
                                !.apm_count = 0]
    /\ UNCHANGED <<clock, activity_ticks, activity_lock, allTicks, last_idle_time,
                   smp, db, requestVars>>

\* line 327
RecAcquire ==
    /\ rec.pc = "lock"
    /\ activity_lock = "free"
    /\ activity_lock' = "recorder"
    /\ rec' = [rec EXCEPT !.pc = "evict", !.tookLock = TRUE]
    /\ UNCHANGED <<clock, activity_ticks, allTicks, last_idle_time, smp, db,
                   requestVars>>

\* lines 328-329: one popleft
RecEvict ==
    /\ rec.pc = "evict"
    /\ activity_ticks # <<>>
    /\ IsStale(Head(activity_ticks), rec.one_minute_ago)
    /\ activity_ticks' = Tail(activity_ticks)
    /\ UNCHANGED <<clock, activity_lock, allTicks, last_idle_time, smp, rec, db,
                   requestVars>>

\* line 330, and the lock released
RecCount ==
    /\ rec.pc = "evict"
    /\ ~(activity_ticks # <<>> /\ IsStale(Head(activity_ticks), rec.one_minute_ago))
    /\ rec' = [rec EXCEPT !.pc = "title", !.apm_count = Len(activity_ticks),
                           !.seen = Len(allTicks)]
    /\ activity_lock' = "free"
    /\ UNCHANGED <<clock, activity_ticks, allTicks, last_idle_time, smp, db,
                   requestVars>>

\* lines 133-135: what _get_active_window_title() can return without raising:
\* xdotool's output stripped (empty for a window without a name), or None on
\* a timeout or a non-zero exit
WindowTitleReads ==
    {RunCommand(Outcome("ok", t)) : t \in RecorderTitles \cup {<<>>}}
        \cup {RunCommand(Outcome(k, <<>>)) : k \in {"timeout", "nonzero"}}

\* the title read used as it is
OrDesktop_noFallback(read) == read.v

\* line 332: _get_active_window_title() or "Desktop"
OrDesktop(read) == IF ~read.some \/ read.v = <<>> THEN Desktop ELSE read.v

\* lines 332-333: the title read and the sanitizer
RecTitle ==
    /\ rec.pc = "title"
    /\ \E read \in WindowTitleReads :
        rec' = [rec EXCEPT !.pc = "insert", !.didRead = TRUE, !.read = read,
                           !.final_title = SanitizeWindowTitle(OrDesktop(read))]
    /\ UNCHANGED <<clock, activity_ticks, activity_lock, allTicks, last_idle_time,
                   smp, db, requestVars>>

\* lines 335-345: insert and prune in one transaction, committed
RecInsert ==
    /\ rec.pc = "insert"
    /\ db' = Prune(InsertOrIgnore(db, Row(clock, rec.final_title, rec.apm_count)),
                   clock - LOG_RETENTION_HOURS * HourSeconds)
    /\ rec' = [StartedRecorder EXCEPT !.wake = clock + LOG_INTERVAL_SECONDS]
    /\ UNCHANGED <<clock, activity_ticks, activity_lock, allTicks, last_idle_time,
                   smp, requestVars>>

\* a step of the cycle raises: inside the locked section (the lock is
\* released by the with block), in the title read (xdotool cannot be
\* started), or in the storage transaction (rolled back)
RecRaise ==
    /\ \/ /\ rec.pc = "evict"
          /\ activity_lock' = "free"
          /\ rec' = [rec EXCEPT !.pc = "except", !.exc = "Exception"]
       \/ /\ rec.pc = "title"
          /\ rec' = [rec EXCEPT !.pc = "except", !.exc = "OSError"]
          /\ UNCHANGED activity_lock
       \/ /\ rec.pc = "insert"
          /\ rec' = [rec EXCEPT !.pc = "except", !.exc = "sqlite3.Error"]
          /\ UNCHANGED activity_lock
    /\ UNCHANGED <<clock, activity_ticks, allTicks, last_idle_time, smp, db,
                   requestVars>>

\* lines 346-347: the handler logs and the loop goes on; an exception the
\* handler does not catch ends the thread
RecExcept ==
    /\ rec.pc = "except"
    /\ rec' = IF Catches(rec.exc)
              THEN [StartedRecorder EXCEPT !.wake = clock + LOG_INTERVAL_SECONDS,
                                           !.lastFailed = TRUE]
              ELSE [rec EXCEPT !.pc = "dead"]
    /\ UNCHANGED <<clock, activity_ticks, activity_lock, allTicks, last_idle_time,
                   smp, db, requestVars>>

\* time passes, up to `limit`
TickUntil(limit) ==
    /\ clock < limit
    /\ clock' = clock + 1
    /\ UNCHANGED <<activity_ticks, activity_lock, allTicks, last_idle_time, smp,
                   rec, db, requestVars>>

Tick == TickUntil(MaxClock)

----------------------------------------------------------------------------
(* SpecRecorder: the sampler and the recorder over the ledger and the table *)

InitRecorder ==
    /\ InitBackground
    /\ clock = 0
    /\ db = <<>>
    /\ threads = {}
    /\ req = <<>>
    /\ anonymization_cache = <<>>
    /\ calls = [t \in StoredTitles |-> 0]
    /\ stage2Succeeded = FALSE
    /\ invocations = 0

NextRecorder ==
    \/ Tick
    \/ SamplerPollQuiet \/ SamplerPollActive \/ SamplerAppend \/ SamplerDies
    \/ RecWake \/ RecProbe \/ RecAcquire \/ RecEvict \/ RecCount \/ RecTitle
    \/ RecInsert \/ RecRaise \/ RecExcept

SpecRecorder == InitRecorder /\ [][NextRecorder]_vars

\* the handler runs when an exception is in flight: the thread is scheduled
SpecRecorderLive == SpecRecorder /\ WF_vars(RecExcept)

----------------------------------------------------------------------------
(* SpecSampler: the two threads as in SpecRecorder, with the sampler taken  *)
(* from its first line and the histories of its idle reads kept            *)

InitSampler ==
    /\ activity_ticks = <<>>
    /\ activity_lock = "free"
    /\ allTicks = <<>>
    /\ last_idle_time = 0
    /\ smp = [StartedSampler EXCEPT !.pc = "start", !.traced = TRUE]
    /\ rec = StartedRecorder
    /\ clock = 0
    /\ db = <<>>
    /\ threads = {}
    /\ req = <<>>
    /\ anonymization_cache = <<>>
    /\ calls = [t \in StoredTitles |-> 0]
    /\ stage2Succeeded = FALSE
    /\ invocations = 0

NextSampler == SamplerStart \/ NextRecorder

SpecSampler == InitSampler /\ [][NextSampler]_vars

----------------------------------------------------------------------------
(* SpecLedger: the sampler and the recorder on schedule.  Each thread wakes *)
(* when its time.sleep ends and its cycle takes no time, so that time only  *)
(* passes while both sleep; no collaborator fails.                          *)

\* time for one tick more than fit into a window and a recording interval
LedgerHorizon == APM_WINDOW_SECONDS + LOG_INTERVAL_SECONDS + 2 * APM_POLL_INTERVAL_S

TickOnSchedule ==
    /\ smp.pc = "sleep" /\ clock < smp.wake
    /\ rec.pc = "sleep" /\ clock < rec.wake
    /\ TickUntil(LedgerHorizon)

NextLedger ==
    \/ TickOnSchedule
    \/ SamplerPollQuiet \/ SamplerPollActive \/ SamplerAppend
    \/ RecWake \/ RecProbe \/ RecAcquire \/ RecEvict \/ RecCount \/ RecTitle
    \/ RecInsert

SpecLedger == InitRecorder /\ [][NextLedger]_vars

----------------------------------------------------------------------------
(* Properties of the ledger and the recorder                               *)

\* the ticks ever appended that are no older than the window of `now`
TicksSince(now) ==
    {i \in DOMAIN allTicks : allTicks[i] >= now - APM_WINDOW_SECONDS}

\* C4: the count an unlocked cycle takes at time now is the number of ticks
\* ever appended whose timestamp is >= now - APM_WINDOW_SECONDS; no tick is
\* appended while the recorder evicts and counts, and the ledger is always
\* the tail of the ticks ever appended.
C4_ApmExact ==
    /\ [][rec.pc = "evict" /\ rec'.pc = "title" =>
            rec'.apm_count = Cardinality(TicksSince(rec.now))]_vars
    /\ [][activity_lock = "recorder" => allTicks' = allTicks]_vars
    /\ [](\E k \in 0..Len(allTicks) :
            activity_ticks = SubSeq(allTicks, k + 1, Len(allTicks)))

\* a count taken after an eviction, with a tick exactly as old as the window
\* counted, while the sampler waits for the lock with another tick
C4_Witness ==
    /\ rec.pc = "title"
    /\ smp.pc = "append"
    /\ rec.apm_count >= 1
    /\ rec.apm_count < Len(allTicks)
    /\ Len(activity_ticks) = rec.apm_count
    /\ Head(activity_ticks) = rec.one_minute_ago

\* the recorder has just ended an eviction pass: the count of line 330 is
\* taken and no tick has been appended since
AfterEvictionPass == rec.pc = "title" /\ Len(activity_ticks) = rec.apm_count

\* the ledger is ordered oldest-first
OldestFirst ==
    \A i \in 1..(Len(activity_ticks) - 1) : activity_ticks[i] <= activity_ticks[i + 1]

\* C12 as claimed: immediately after an eviction pass with reference time
\* now, the ledger is ordered oldest-first and every tick in it has a
\* timestamp within [now - APM_WINDOW_SECONDS, now].
C12_WindowAroundNow ==
    AfterEvictionPass =>
        /\ OldestFirst
        /\ \A i \in DOMAIN activity_ticks :
              /\ activity_ticks[i] >= rec.now - APM_WINDOW_SECONDS
              /\ activity_ticks[i] <= rec.now

\* C12 as amended: immediately after an eviction pass with reference time
\* now, the ledger is ordered oldest-first and every tick in it has a
\* timestamp >= now - APM_WINDOW_SECONDS and no later than the end of the
\* pass; a tick appended between the reading of now (line 325) and the taking
\* of the lock (line 327) is later than now.
C12_WindowFromBelow ==
    AfterEvictionPass =>
        /\ OldestFirst
        /\ \A i \in DOMAIN activity_ticks :
              /\ activity_ticks[i] >= rec.now - APM_WINDOW_SECONDS
              /\ activity_ticks[i] <= clock

\* after a pass the ledger runs from a tick exactly as old as the window to a
\* tick appended after now was read
C12_Witness ==
    /\ AfterEvictionPass
    /\ activity_ticks # <<>>
    /\ Head(activity_ticks) = rec.now - APM_WINDOW_SECONDS
    /\ activity_ticks[Len(activity_ticks)] > rec.now

\* the ticks of one poll in every APM_POLL_INTERVAL_S over a window and the
\* recording interval that follows it
LedgerBound ==
    (APM_WINDOW_SECONDS + LOG_INTERVAL_SECONDS) \div APM_POLL_INTERVAL_S + 1

\* C13: in every reachable state, whatever the sequence of locked and
\* unlocked recorder cycles, the ledger holds no more ticks than the constant
\* that APM_WINDOW_SECONDS, LOG_INTERVAL_SECONDS and APM_POLL_INTERVAL_S fix.
C13_LedgerBounded == Len(activity_ticks) <= LedgerBound

\* C14: a cycle in which the screen is reported locked writes the snapshot
\* (time of writing, "USER_AFK_LOCKED", 0), has not entered the locked section
\* of the ledger, leaves the ledger as it is and has not read the window
\* title; a cycle in which it is not locked writes as apm the number of ticks
\* left after its eviction (the ticks appended by then that are no older than
\* the window) and as title the sanitized window title, or the sanitized
\* "Desktop" when the title read returned nothing.
C14_LockedCycle ==
    /\ [][rec.pc = "insert" /\ rec'.pc = "sleep" =>
            LET counted == {i \in 1..rec.seen :
                              allTicks[i] >= rec.now - APM_WINDOW_SECONDS}
                title   == IF rec.read.some /\ rec.read.v # <<>>
                           THEN SanitizeWindowTitle(rec.read.v)
                           ELSE SanitizeWindowTitle(Desktop)
                written == IF rec.locked
                           THEN Row(clock, USER_AFK_LOCKED, 0)
                           ELSE Row(clock, title, Cardinality(counted))
            IN  /\ db' # <<>> /\ db'[Len(db')] = written
                /\ rec.locked => ~rec.tookLock /\ ~rec.didRead
                /\ ~rec.locked => rec.tookLock /\ rec.didRead]_vars
    /\ [][rec.locked /\ rec' # rec =>
            activity_ticks' = activity_ticks /\ activity_lock' = activity_lock]_vars

\* a locked cycle has written its snapshot over a ledger that holds ticks,
\* after an unlocked cycle whose title read returned nothing
C14_Witness ==
    /\ rec.pc = "sleep"
    /\ Len(db) = 2
    /\ db[1].title = Desktop /\ db[1].apm >= 1
    /\ db[2] = Row(clock, USER_AFK_LOCKED, 0)
    /\ activity_ticks # <<>>

\* C15: a poll whose idle read succeeds with a value I below I_prev + T_poll
\* is followed by exactly one tick, stamped with the time of the append, and
\* I_prev becomes I; a poll whose read succeeds with another value appends
\* nothing and sets I_prev to I; a poll whose read fails appends nothing and
\* leaves I_prev.  Ticks come from nowhere else, one at a time, and whenever
\* the sampler sleeps I_prev is the latest value read (0 if the first read
\* gave none).
C15_TickRule ==
    /\ [][smp.pc = "sleep" /\ smp' # smp /\ smp'.pc # "dead" =>
            LET I == smp'.read
            IN  /\ allTicks' = allTicks
                /\ ~I.some =>
                      smp'.pc = "sleep" /\ last_idle_time' = last_idle_time
                /\ I.some /\ ~(I.v < last_idle_time + APM_POLL_INTERVAL_S * 1000) =>
                      smp'.pc = "sleep" /\ last_idle_time' = I.v
                /\ I.some /\ I.v < last_idle_time + APM_POLL_INTERVAL_S * 1000 =>
                      smp'.pc = "append" /\ last_idle_time' = last_idle_time]_vars
    /\ [][smp.pc = "append" /\ smp' # smp =>
            /\ allTicks' = Append(allTicks, clock)
            /\ activity_ticks' = Append(activity_ticks, clock)
            /\ last_idle_time' = smp.read.v
            /\ smp'.pc = "sleep"]_vars
    /\ [][allTicks' # allTicks =>
            smp.pc = "append" /\ Len(allTicks') = Len(allTicks) + 1]_vars
    /\ [](smp.pc = "sleep" => last_idle_time = smp.good)

\* a failed read has left I_prev at a value read earlier, after a tick and a
\* successful read without a tick
C15_Witness ==
    /\ smp.pc = "sleep"
    /\ ~smp.read.some
    /\ last_idle_time = APM_POLL_INTERVAL_S * 1000
    /\ allTicks # <<>>
    /\ allTicks[Len(allTicks)] < clock - APM_POLL_INTERVAL_S

\* C16: the sampler thread never ends: whatever the idle read does, a
\* timeout, a non-zero exit, a tool that cannot be executed or an output that
\* is no number, at line 301 or in the loop, the thread is still in its loop
\* and goes on to a later poll.
C16_SamplerNeverStops == smp.pc \in {"start", "sleep", "append"}

\* C10: the recorder thread never ends, and every exception raised in a
\* cycle reaches the handler, after which the thread is back at the head of
\* its loop, sleeping towards the next cycle.
C10_RecorderSurvives ==
    /\ [](rec.pc # "dead")
    /\ [][rec.pc = "except" => rec'.pc \in {"except", "sleep"}]_vars
    /\ (rec.pc = "except") ~> (rec.pc = "sleep")

\* a cycle runs after a failed one
C10_Witness == rec.lastFailed /\ rec.pc = "probe"

====
